---- MODULE Spec2Model ----
\* byov-tts-server (src/app.py): the startup hook, /health, /voices and the
\* /generate handler, with the voice storage, the temporary directory, the shared
\* torch random-number source and the event loop the handlers run on.
EXTENDS Integers, Sequences, FiniteSets, TLC

\* ---------------------------------------------------------------- bounds
NumReqs == 2        \* /generate calls in one behaviour of Spec

Reqs == 1..NumReqs

\* Optional[T]: None is <<>>, a value v is <<v>>.
None == <<>>
Some(v) == <<v>>

\* ---------------------------------------------------------------- storage
\* The storage root (VOICES_DIR): whether it exists, the kind of each entry in it,
\* and the files of each directory entry. A file name is <<stem, extension>>.
EntryNames == {"alice", "bob"}
Stems == {"alice", "formal"}
Exts == {"wav", "txt"}
FileNames == Stems \X Exts

NoRoot == [root |-> FALSE, kind |-> [d \in EntryNames |-> "none"],
           files |-> [d \in EntryNames |-> {}]]

Storages ==
    {NoRoot} \cup
    {[root |-> TRUE, kind |-> k, files |-> f] :
        k \in [EntryNames -> {"none", "file", "dir"}],
        f \in [EntryNames -> SUBSET FileNames]}

\* Only a directory holds files.
WellFormed(s) == \A d \in EntryNames : s.kind[d] # "dir" => s.files[d] = {}

Kind(s, d) == IF s.root /\ d \in EntryNames THEN s.kind[d] ELSE "none"

\* Path(VOICES_DIR).exists()
RootExists(s) == s.root
\* (Path(VOICES_DIR) / d).exists(): true of a directory and of a plain file
DirExists(s, d) == Kind(s, d) # "none"
\* (Path(VOICES_DIR) / d).is_dir()
IsDir(s, d) == Kind(s, d) = "dir"
\* (Path(VOICES_DIR) / d / f"{stem}.{ext}").exists()
FileExists(s, d, stem, ext) == IsDir(s, d) /\ <<stem, ext>> \in s.files[d]
\* Path(VOICES_DIR).iterdir()
IterDir(s) == {d \in EntryNames : DirExists(s, d)}
\* voice_dir.glob("*.wav"), as the stems of the matches
GlobWav(s, d) == IF IsDir(s, d) THEN {f[1] : f \in {g \in s.files[d] : g[2] = "wav"}} ELSE {}

\* ---------------------------------------------------------------- text
Whitespace == {" ", "\t", "\n"}

RECURSIVE LStrip(_)
LStrip(s) == IF s # <<>> /\ Head(s) \in Whitespace THEN LStrip(Tail(s)) ELSE s

RECURSIVE RStrip(_)
RStrip(s) == IF s # <<>> /\ s[Len(s)] \in Whitespace
             THEN RStrip(SubSeq(s, 1, Len(s) - 1)) ELSE s

\* str.strip()
Strip(s) == RStrip(LStrip(s))

\* The content of the sidecar d/stem.txt (a fixed function of its name).
Content(d, stem) ==
    IF stem = "formal" THEN <<"G", "o", "o", "d", " ", "d", "a", "y", "\n">>
    ELSE <<" ", "H", "e", "y", " ", "\n">>

\* ---------------------------------------------------------------- requests
\* GenerateRequest. speed and cross_fade_duration are in hundredths.
DefaultTunables == [speed |-> 100, nfe_step |-> 32, cross_fade_duration |-> 15,
                    remove_silence |-> FALSE]
Tunables == {DefaultTunables,
             [speed |-> 50, nfe_step |-> 16, cross_fade_duration |-> 30,
              remove_silence |-> TRUE],
             [speed |-> -200, nfe_step |-> 0, cross_fade_duration |-> -5,
              remove_silence |-> FALSE]}

\* A Python int n, which has no fixed width, as <<n \div 2**16, n % 2**16>>.
PyInt(n) == <<n \div 65536, n % 65536>>
Less(a, b) == a[1] < b[1] \/ (a[1] = b[1] /\ a[2] < b[2])
Pred(a) == IF a[2] > 0 THEN <<a[1], a[2] - 1>> ELSE <<a[1] - 1, 65535>>
Succ(a) == IF a[2] < 65535 THEN <<a[1], a[2] + 1>> ELSE <<a[1] + 1, 0>>

\* 2**31 - 1
MaxSeed == <<32767, 65535>>

DefaultSeed == Some(PyInt(-1))
Seeds == {None, Some(PyInt(-1)), Some(PyInt(0)), Some(PyInt(1)), Some(MaxSeed),
          Some(Succ(MaxSeed))}

VoiceIds == {"alice", "bob"}
Variations == {None, Some(""), Some("alice"), Some("formal")}
Texts == {<<>>, <<" ", "\n">>, <<"H", "i">>, <<" ", "H", "i", " ">>}

GenerateRequest(v, var, t, sd, tun) ==
    [voice_id |-> v, text |-> t, variation |-> var, speed |-> tun.speed,
     nfe_step |-> tun.nfe_step, cross_fade_duration |-> tun.cross_fade_duration,
     seed |-> sd, remove_silence |-> tun.remove_silence]

\* Requests that differ in what the existence checks and the text check read.
CatalogRequests ==
    {GenerateRequest(v, var, t, DefaultSeed, DefaultTunables) :
        v \in VoiceIds, var \in Variations, t \in Texts}

\* Requests that differ in the seed and in the tunable parameters.
CoreRequests ==
    {GenerateRequest("alice", None, <<"H", "i">>, sd, DefaultTunables) : sd \in Seeds}
    \cup {GenerateRequest("alice", Some("formal"), <<" ", "H", "i", " ">>,
                          DefaultSeed, tun) : tun \in Tunables}

\* Requests of concurrent callers: they differ in the seed alone.
ConcurrentRequests ==
    {GenerateRequest("alice", None, <<"H", "i">>, sd, DefaultTunables) :
        sd \in {DefaultSeed, Some(PyInt(0)), Some(MaxSeed)}}

\* The storage state of Spec: one voice with two complete variations.
CoreStorages ==
    {s \in Storages :
        /\ s.root /\ s.kind["alice"] = "dir" /\ s.kind["bob"] = "none"
        /\ s.files["bob"] = {}
        /\ s.files["alice"] = FileNames}

\* ---------------------------------------------------------------- state
VARIABLES
    phase,        \* startup_event: "load_vocoder", "load_model", "serving", "exited"
    vocoder,      \* global vocoder
    ema_model,    \* global ema_model
    fs,           \* the voice storage
    loop,         \* the request whose handler holds the event loop, 0 when free
    pc,           \* per request: its position in generate_speech
    req,          \* per request: the GenerateRequest
    variation,    \* per request: local variation
    ref_text,     \* per request: local ref_text
    seed,         \* per request: local seed after line 148
    torch_seed,   \* the seed of torch's global generator (torch.manual_seed)
    engine_call,  \* per request: the arguments infer_process was called with
    output_path,  \* per request: the temporary file it created, 0 when none
    tmpfiles,     \* the temporary files on disk
    unlinks,      \* per temporary file: how often os.unlink removed it
    resp,         \* per request: the HTTP response
    catalog,      \* the last /voices response
    health        \* the last /health response

vars == <<phase, vocoder, ema_model, fs, loop, pc, req, variation, ref_text, seed,
          torch_seed, engine_call, output_path, tmpfiles, unlinks, resp, catalog,
          health>>

startupVars == <<phase, vocoder, ema_model>>
handlerVars == <<pc, req, variation, ref_text, seed, engine_call, output_path, resp>>

InitWith(storages) ==
    /\ phase = "load_vocoder"
    /\ vocoder = None
    /\ ema_model = None
    /\ fs \in {s \in storages : WellFormed(s)}
    /\ loop = 0
    /\ pc = [r \in Reqs |-> "idle"]
    /\ req = [r \in Reqs |-> None]
    /\ variation = [r \in Reqs |-> None]
    /\ ref_text = [r \in Reqs |-> None]
    /\ seed = [r \in Reqs |-> None]
    /\ torch_seed = None
    /\ engine_call = [r \in Reqs |-> None]
    /\ output_path = [r \in Reqs |-> 0]
    /\ tmpfiles = {}
    /\ unlinks = [f \in 1..NumReqs |-> 0]
    /\ resp = [r \in Reqs |-> None]
    /\ catalog = None
    /\ health = None

\* ---------------------------------------------------------------- startup
\* startup_event: load_vocoder() and then load_model(); either may raise, and
\* the server then exits without ever accepting a request.
LoadVocoder ==
    /\ phase = "load_vocoder"
    /\ \/ vocoder' = Some("vocoder") /\ phase' = "load_model"
       \/ vocoder' = vocoder /\ phase' = "exited"
    /\ UNCHANGED <<ema_model, fs, loop, handlerVars, torch_seed, tmpfiles, unlinks,
                   catalog, health>>

LoadModel ==
    /\ phase = "load_model"
    /\ \/ ema_model' = Some("F5TTS_v1_Base") /\ phase' = "serving"
       \/ ema_model' = ema_model /\ phase' = "exited"
    /\ UNCHANGED <<vocoder, fs, loop, handlerVars, torch_seed, tmpfiles, unlinks,
                   catalog, health>>

\* Mutant of Serving: requests are accepted while the model is still loading.
ServingWhileLoading == phase \in {"load_model", "serving"}

\* Requests are accepted once the startup hook has returned.
Serving == phase = "serving"

\* ---------------------------------------------------------------- /health
health_check ==
    /\ Serving /\ loop = 0
    /\ health' = Some([status |-> "ok", model_loaded |-> ema_model # None])
    /\ UNCHANGED <<startupVars, fs, loop, handlerVars, torch_seed, tmpfiles, unlinks,
                   catalog>>

\* ---------------------------------------------------------------- /voices
\* Mutant of VariationsOf: every .wav counts, with or without its .txt.
VariationsOfAnyWav(s, d) == GlobWav(s, d)

\* The variations of one voice directory: the stems of its .wav files that have
\* a .txt of the same stem.
VariationsOf(s, d) == {v \in GlobWav(s, d) : FileExists(s, d, v, "txt")}

\* Mutant of Voices: a directory without variations is listed too.
VoicesKeepEmpty(s) ==
    IF ~RootExists(s) THEN {}
    ELSE {[voice_id |-> d, variations |-> VariationsOf(s, d)] :
            d \in {e \in IterDir(s) : IsDir(s, e)}}

\* The "voices" list of the response (its order is the directory's, unspecified).
Voices(s) ==
    IF ~RootExists(s) THEN {}
    ELSE {[voice_id |-> d, variations |-> VariationsOf(s, d)] :
            d \in {e \in IterDir(s) : IsDir(s, e) /\ VariationsOf(s, e) # {}}}

list_voices ==
    /\ Serving /\ loop = 0
    /\ catalog' = Some([status |-> 200, voices |-> Voices(fs)])
    /\ UNCHANGED <<startupVars, fs, loop, handlerVars, torch_seed, tmpfiles, unlinks,
                   health>>

\* ---------------------------------------------------------------- /generate
\* Mutant of AwaitPoints: inference is awaited (run off the event loop).
AwaitPointsOnInference == {"seeded"}

\* The positions of generate_speech at which the coroutine awaits, handing the
\* event loop to another handler: the body holds no await.
AwaitPoints == {}

\* The event loop after request r reached position p.
LoopAfter(r, p) == IF p \in AwaitPoints \cup {"sending", "done"} THEN 0 ELSE r

\* r may take its next step: it holds the loop, or the loop is free.
MayRun(r) == loop \in {0, r}

HTTPException(status, detail) ==
    Some([status |-> status, media_type |-> "application/json", detail |-> detail,
          filename |-> None])

FileResponse(path, media_type, filename) ==
    Some([status |-> 200, media_type |-> media_type, detail |-> None,
          filename |-> Some(filename), path |-> path])

\* request.variation or request.voice_id
ResolveVariation(rq) ==
    IF rq.variation # None /\ rq.variation[1] # "" THEN rq.variation[1]
    ELSE rq.voice_id

\* Mutant of TextMissing: the text is not stripped before the test.
TextMissingNoStrip(rq) == rq.text = <<>>

\* not request.text or not request.text.strip()
TextMissing(rq) == rq.text = <<>> \/ Strip(rq.text) = <<>>

\* Mutant of Validate: the text is checked before the files.
ValidateTextFirst(s, rq) ==
    LET var == ResolveVariation(rq) IN
    IF TextMissing(rq)
    THEN HTTPException(400, <<"Text parameter is required and cannot be empty">>)
    ELSE IF ~DirExists(s, rq.voice_id)
    THEN HTTPException(404, <<"Voice ID '", rq.voice_id, "' not found">>)
    ELSE IF ~FileExists(s, rq.voice_id, var, "wav")
    THEN HTTPException(404, <<"Variation '", var, "' not found for voice '",
                              rq.voice_id, "'">>)
    ELSE IF ~FileExists(s, rq.voice_id, var, "txt")
    THEN HTTPException(404, <<"Reference text file not found for variation '",
                              var, "'">>)
    ELSE None

\* Lines 120-138: the response of the first check that fails, None when all pass.
Validate(s, rq) ==
    LET var == ResolveVariation(rq) IN
    IF ~DirExists(s, rq.voice_id)
    THEN HTTPException(404, <<"Voice ID '", rq.voice_id, "' not found">>)
    ELSE IF ~FileExists(s, rq.voice_id, var, "wav")
    THEN HTTPException(404, <<"Variation '", var, "' not found for voice '",
                              rq.voice_id, "'">>)
    ELSE IF ~FileExists(s, rq.voice_id, var, "txt")
    THEN HTTPException(404, <<"Reference text file not found for variation '",
                              var, "'">>)
    ELSE IF TextMissing(rq)
    THEN HTTPException(400, <<"Text parameter is required and cannot be empty">>)
    ELSE None

\* A client sends POST /generate; the handler is scheduled on the event loop.
Arrive(r, inputs) ==
    /\ Serving
    /\ pc[r] = "idle"
    /\ \A q \in Reqs : q < r => pc[q] # "idle"
    /\ \E rq \in inputs : req' = [req EXCEPT ![r] = Some(rq)]
    /\ pc' = [pc EXCEPT ![r] = "pending"]
    /\ UNCHANGED <<startupVars, fs, loop, variation, ref_text, seed, torch_seed,
                   engine_call, output_path, tmpfiles, unlinks, resp, catalog, health>>

\* Lines 112-142: resolve the variation, check the files and the text, read the
\* reference text.
Resolve(r) ==
    /\ pc[r] = "pending" /\ MayRun(r)
    /\ LET rq == req[r][1]
           var == ResolveVariation(rq)
           failure == Validate(fs, rq)
           next == IF failure = None THEN "validated" ELSE "done"
       IN /\ variation' = [variation EXCEPT ![r] = Some(var)]
          /\ resp' = [resp EXCEPT ![r] = failure]
          /\ ref_text' = [ref_text EXCEPT ![r] =
                IF failure = None THEN Some(Strip(Content(rq.voice_id, var)))
                ELSE None]
          /\ pc' = [pc EXCEPT ![r] = next]
          /\ loop' = LoopAfter(r, next)
    /\ UNCHANGED <<startupVars, fs, req, seed, torch_seed, engine_call, output_path,
                   tmpfiles, unlinks, catalog, health>>

\* np.random.randint(low, high): low <= n < high, drawn here among SeedDraws.
SeedDraws == {PyInt(0), PyInt(1), Pred(MaxSeed), MaxSeed}
RandInt(low, high) == {n \in SeedDraws : ~Less(n, low) /\ Less(n, high)}

\* Lines 146-148: the seeds the request resolves to.
ResolvedSeeds(sd) ==
    IF Less(sd, PyInt(0)) \/ Less(MaxSeed, sd) THEN RandInt(PyInt(0), MaxSeed) ELSE {sd}

InferenceError(msg) == HTTPException(500, <<"Model inference error: ", msg>>)

\* Lines 146-149: resolve the seed and seed torch's global generator with it. A
\* null seed makes the comparison raise, which line 184 turns into a 500.
SetSeed(r) ==
    /\ pc[r] = "validated" /\ MayRun(r)
    /\ LET sd == req[r][1].seed IN
       IF sd = None
       THEN /\ resp' = [resp EXCEPT ![r] = InferenceError("'<' not supported")]
            /\ pc' = [pc EXCEPT ![r] = "done"]
            /\ loop' = LoopAfter(r, "done")
            /\ UNCHANGED <<seed, torch_seed>>
       ELSE /\ \E n \in ResolvedSeeds(sd[1]) :
                /\ seed' = [seed EXCEPT ![r] = Some(n)]
                /\ torch_seed' = Some(n)
            /\ pc' = [pc EXCEPT ![r] = "seeded"]
            /\ loop' = LoopAfter(r, "seeded")
            /\ UNCHANGED resp
    /\ UNCHANGED <<startupVars, fs, req, variation, ref_text, engine_call, output_path,
                   tmpfiles, unlinks, catalog, health>>

\* Lines 152-169: what preprocess_ref_audio_text and infer_process are called
\* with; generator_seed is the seed torch's generator holds as inference runs.
InferArgs(rq, var, rtext) ==
    [ref_audio |-> <<rq.voice_id, var, "wav">>,
     ref_text |-> rtext,
     gen_text |-> rq.text,
     model_obj |-> ema_model,
     vocoder |-> vocoder,
     cross_fade_duration |-> rq.cross_fade_duration,
     nfe_step |-> rq.nfe_step,
     speed |-> rq.speed]

\* Lines 152-169: run the Engine; it returns a waveform or raises.
Infer(r) ==
    /\ pc[r] = "seeded" /\ MayRun(r)
    /\ engine_call' = [engine_call EXCEPT ![r] =
          Some([args |-> InferArgs(req[r][1], variation[r][1], ref_text[r][1]),
                generator_seed |-> torch_seed])]
    /\ \/ /\ pc' = [pc EXCEPT ![r] = "inferred"]
          /\ loop' = LoopAfter(r, "inferred")
          /\ UNCHANGED resp
       \/ /\ resp' = [resp EXCEPT ![r] = InferenceError("CUDA out of memory")]
          /\ pc' = [pc EXCEPT ![r] = "done"]
          /\ loop' = LoopAfter(r, "done")
    /\ UNCHANGED <<startupVars, fs, req, variation, ref_text, seed, torch_seed,
                   output_path, tmpfiles, unlinks, catalog, health>>

\* tempfile.NamedTemporaryFile(delete=False): a name no earlier file had.
NewTempName == Cardinality({r \in Reqs : output_path[r] # 0}) + 1

\* Lines 172-174: create the temporary file and write the waveform into it;
\* sf.write may raise, and line 184 then answers 500.
Save(r) ==
    /\ pc[r] = "inferred" /\ MayRun(r)
    /\ output_path' = [output_path EXCEPT ![r] = NewTempName]
    /\ tmpfiles' = tmpfiles \cup {NewTempName}
    /\ \/ /\ pc' = [pc EXCEPT ![r] = "saved"]
          /\ loop' = LoopAfter(r, "saved")
          /\ UNCHANGED resp
       \/ /\ resp' = [resp EXCEPT ![r] = InferenceError("Error opening file")]
          /\ pc' = [pc EXCEPT ![r] = "done"]
          /\ loop' = LoopAfter(r, "done")
    /\ UNCHANGED <<startupVars, fs, req, variation, ref_text, seed, torch_seed,
                   engine_call, unlinks, catalog, health>>

\* Lines 177-182: return the FileResponse; the handler is over and the framework
\* starts sending the file.
Respond(r) ==
    /\ pc[r] = "saved" /\ MayRun(r)
    /\ resp' = [resp EXCEPT ![r] =
          FileResponse(output_path[r], "audio/wav",
                       <<req[r][1].voice_id, "_", variation[r][1], ".wav">>)]
    /\ pc' = [pc EXCEPT ![r] = "sending"]
    /\ loop' = LoopAfter(r, "sending")
    /\ UNCHANGED <<startupVars, fs, req, variation, ref_text, seed, torch_seed,
                   engine_call, output_path, tmpfiles, unlinks, catalog, health>>

\* Line 181: the background callable, os.unlink(output_path).
Unlink(f) ==
    /\ tmpfiles' = tmpfiles \ {f}
    /\ unlinks' = [unlinks EXCEPT ![f] = @ + 1]

\* The body has been sent in full; the response then runs its background.
SendComplete(r) ==
    /\ pc[r] = "sending" /\ loop = 0
    /\ Unlink(output_path[r])
    /\ pc' = [pc EXCEPT ![r] = "done"]
    /\ UNCHANGED <<startupVars, fs, loop, req, variation, ref_text, seed, torch_seed,
                   engine_call, output_path, resp, catalog, health>>

\* The client goes away while the body is being sent. The server either drops
\* the remaining writes silently, and the background still runs, or raises out
\* of the send, and the background is skipped.
ClientDisconnect(r) ==
    /\ pc[r] = "sending" /\ loop = 0
    /\ \/ Unlink(output_path[r])
       \/ UNCHANGED <<tmpfiles, unlinks>>
    /\ pc' = [pc EXCEPT ![r] = "done"]
    /\ UNCHANGED <<startupVars, fs, loop, req, variation, ref_text, seed, torch_seed,
                   engine_call, output_path, resp, catalog, health>>

generate_speech(r) ==
    \/ Resolve(r)
    \/ SetSeed(r)
    \/ Infer(r)
    \/ Save(r)
    \/ Respond(r)

\* ---------------------------------------------------------------- specifications
NextOn(inputs, clients) ==
    \/ LoadVocoder
    \/ LoadModel
    \/ health_check
    \/ list_voices
    \/ \E r \in clients : Arrive(r, inputs)
    \/ \E r \in clients : generate_speech(r)
    \/ \E r \in clients : SendComplete(r)
    \/ \E r \in clients : ClientDisconnect(r)

\* Concurrent /generate calls against one storage state.
Init == InitWith(CoreStorages)
Next == NextOn(ConcurrentRequests, Reqs)
Spec == Init /\ [][Next]_vars

\* One /generate call, over every storage state and every request.
InitSerial == InitWith(Storages)
SerialRequests == CatalogRequests \cup CoreRequests
NextSerial == NextOn(SerialRequests, {1})
SpecSerial == InitSerial /\ [][NextSerial]_vars

\* ---------------------------------------------------------------- properties
Range(q) == {q[i] : i \in DOMAIN q}
Blank(t) == \A i \in DOMAIN t : t[i] \in Whitespace
Answered(r) == resp[r] # None
Finished(r) == pc[r] = "done"
Status(r) == resp[r][1].status
Detail(r) == resp[r][1].detail
EngineInvoked(r) == engine_call[r] # None

\* What the storage holds, read off fs directly.
HasDir(d) == fs.root /\ fs.kind[d] = "dir"
HasFile(d, stem, ext) == HasDir(d) /\ <<stem, ext>> \in fs.files[d]
HasPair(d, stem) == HasFile(d, stem, "wav") /\ HasFile(d, stem, "txt")

\* The variation a request asks for: the voice_id when none (or "") is sent.
Asked(rq) == IF rq.variation \in {None, Some("")} THEN rq.voice_id ELSE rq.variation[1]

\* C1: every temporary file a /generate call created is gone once the call has
\* ended, whichever way it ended, and os.unlink removed it exactly once.
C1_ArtifactDeletedExactlyOnce ==
    /\ \A r \in Reqs : (Finished(r) /\ output_path[r] # 0) =>
          /\ output_path[r] \notin tmpfiles
          /\ unlinks[output_path[r]] = 1
    /\ \A f \in DOMAIN unlinks : unlinks[f] <= 1

\* C2: a /generate call answered 404, 400 or 500 leaves no temporary file on
\* disk, also when the file was created and writing the waveform then failed.
C2_ErrorLeavesNoTempFile ==
    \A r \in Reqs : (Answered(r) /\ Status(r) \in {404, 400, 500}) =>
        output_path[r] \notin tmpfiles

\* r has seeded torch's generator and its inference is not over.
InSynthesis(r) == pc[r] = "seeded"

\* C3: at most one request is between seeding torch's generator and the end of
\* its inference, and the generator holds that request's resolved seed all
\* through the section, its inference included.
C3_OneSynthesisInFlight ==
    /\ \A r, q \in Reqs : (InSynthesis(r) /\ InSynthesis(q)) => r = q
    /\ \A r \in Reqs : InSynthesis(r) => torch_seed = seed[r]
    /\ \A r \in Reqs : EngineInvoked(r) => engine_call[r][1].generator_seed = seed[r]

\* A second call with another seed is waiting while the first is in its section.
C3_Witness ==
    \E r, q \in Reqs :
        /\ InSynthesis(r) /\ pc[q] = "pending"
        /\ req[q][1].seed # req[r][1].seed

\* C4: the existence checks decide in order. No directory of that voice_id: 404
\* naming the voice_id, whatever else the request holds. The directory without
\* the variation's audio: 404 naming the variation. The audio without its text
\* sidecar: 404 about the reference text. The Engine is invoked in none of them.
C4_ExistenceChecksInOrder ==
    \A r \in Reqs : pc[r] \notin {"idle", "pending"} =>
        LET rq == req[r][1]
            d == rq.voice_id
            v == Asked(rq)
            notFound == Answered(r) /\ Status(r) = 404 /\ Finished(r)
                        /\ ~EngineInvoked(r)
        IN /\ ~HasDir(d) => notFound /\ d \in Range(Detail(r))
           /\ ~(fs.root /\ fs.kind[d] # "none") =>
                 Detail(r) = <<"Voice ID '", d, "' not found">>
           /\ (HasDir(d) /\ ~HasFile(d, v, "wav")) =>
                 /\ notFound
                 /\ Detail(r) = <<"Variation '", v, "' not found for voice '", d, "'">>
           /\ (HasFile(d, v, "wav") /\ ~HasFile(d, v, "txt")) =>
                 /\ notFound
                 /\ Detail(r) = <<"Reference text file not found for variation '",
                                  v, "'">>

\* The audio is there, the sidecar is not, and the text is blank as well.
C4_Witness ==
    \E r \in Reqs :
        /\ Finished(r) /\ Status(r) = 404
        /\ HasFile(req[r][1].voice_id, Asked(req[r][1]), "wav")
        /\ ~HasFile(req[r][1].voice_id, Asked(req[r][1]), "txt")
        /\ Blank(req[r][1].text)

TextRequired == <<"Text parameter is required and cannot be empty">>

\* C5 as stated: a request whose text is empty or whitespace is answered 400
\* about the text, whatever the storage holds, and the Engine is not invoked.
C5_BlankTextAlways400 ==
    \A r \in Reqs : (pc[r] \notin {"idle", "pending"} /\ Blank(req[r][1].text)) =>
        /\ Answered(r) /\ Status(r) = 400 /\ Detail(r) = TextRequired
        /\ ~EngineInvoked(r)

\* C5 amended: a request whose text is empty or whitespace is answered 400 about
\* the text when the voice directory, the variation's audio and its sidecar
\* exist, and 404 by the existence checks otherwise; the Engine is not invoked
\* for it either way.
C5_BlankText400AfterExistenceChecks ==
    \A r \in Reqs : (pc[r] \notin {"idle", "pending"} /\ Blank(req[r][1].text)) =>
        LET rq == req[r][1] IN
        /\ Answered(r) /\ Finished(r) /\ ~EngineInvoked(r)
        /\ HasPair(rq.voice_id, Asked(rq)) =>
              Status(r) = 400 /\ Detail(r) = TextRequired
        /\ ~HasPair(rq.voice_id, Asked(rq)) => Status(r) = 404

\* A whitespace-only text against a complete variation.
C5_Witness ==
    \E r \in Reqs :
        /\ Finished(r) /\ Status(r) = 400
        /\ req[r][1].text # <<>> /\ Blank(req[r][1].text)
        /\ HasPair(req[r][1].voice_id, Asked(req[r][1]))

\* The pairs the last /voices response lists.
Listed(d, v) ==
    /\ catalog # None
    /\ \E e \in catalog[1].voices : e.voice_id = d /\ v \in e.variations

\* The call failed inside the inference section: the Engine or the encoding of
\* its waveform raised.
SynthesisFailed(r) ==
    /\ Status(r) = 500
    /\ Detail(r) \in {<<"Model inference error: ", "CUDA out of memory">>,
                      <<"Model inference error: ", "Error opening file">>}

Success(r, d, v) ==
    /\ Status(r) = 200
    /\ resp[r][1].media_type = "audio/wav"
    /\ resp[r][1].filename = Some(<<d, "_", v, ".wav">>)

\* C6: /generate agrees with /voices on one storage state. A call with a listed
\* (voice_id, variation) and a non-blank text is answered 200, audio/wav, with
\* filename voice_id_variation.wav, unless synthesis itself failed. A call
\* without variation is resolved to the voice_id and gets past the existence
\* checks exactly when voice_id/voice_id.wav and voice_id/voice_id.txt exist.
C6_GenerateAgreesWithCatalog ==
    \A r \in Reqs : (Finished(r) /\ ~Blank(req[r][1].text) /\ req[r][1].seed # None) =>
        LET rq == req[r][1]
            d == rq.voice_id
        IN /\ \A v \in Stems : (rq.variation = Some(v) /\ Listed(d, v)) =>
                 Success(r, d, v) \/ SynthesisFailed(r)
           /\ rq.variation = None =>
                 /\ variation[r] = Some(d)
                 /\ HasPair(d, d) => Success(r, d, d) \/ SynthesisFailed(r)
                 /\ ~HasPair(d, d) => Status(r) = 404
                 /\ Status(r) = 200 => Success(r, d, d)

\* A listed pair other than the default one was generated.
C6_Witness ==
    \E r \in Reqs :
        /\ Finished(r) /\ Status(r) = 200
        /\ req[r][1].variation = Some("formal")
        /\ Listed(req[r][1].voice_id, "formal")

InSeedRange(n) == ~Less(n, PyInt(0)) /\ ~Less(MaxSeed, n)

\* C7: the Engine runs under a resolved seed in [0, 2**31 - 1]; a request seed
\* in that range is used as it is, and one outside it is replaced by a draw that
\* can give every value of the range, 0 and 2**31 - 1 included.
C7_SeedResolution ==
    /\ \A r \in Reqs : EngineInvoked(r) =>
          /\ seed[r] # None /\ InSeedRange(seed[r][1])
          /\ engine_call[r][1].generator_seed = seed[r]
          /\ InSeedRange(req[r][1].seed[1]) => seed[r] = req[r][1].seed
    /\ \A r \in Reqs :
          (/\ pc[r] = "validated" /\ loop \in {0, r}
           /\ req[r][1].seed # None /\ ~InSeedRange(req[r][1].seed[1])) =>
             \A n \in {PyInt(0), PyInt(1), Pred(MaxSeed), MaxSeed} :
                ENABLED (SetSeed(r) /\ seed'[r] = Some(n))

\* C8: /voices lists v under d exactly when d is a directory of the storage
\* root holding both v.wav and v.txt; no entry has an empty variations list, no
\* voice has two entries, and a missing root gives an empty list.
C8_CatalogExact ==
    catalog # None =>
        LET voices == catalog[1].voices IN
        /\ catalog[1].status = 200
        /\ \A d \in EntryNames, v \in Stems : Listed(d, v) <=> HasPair(d, v)
        /\ \A e \in voices :
              /\ e.voice_id \in EntryNames
              /\ e.variations # {} /\ e.variations \subseteq Stems
        /\ \A e, g \in voices : e.voice_id = g.voice_id => e = g
        /\ ~fs.root => voices = {}

\* One voice is listed while another directory holds only audio without text.
C8_Witness ==
    /\ catalog # None /\ catalog[1].voices # {}
    /\ \E d \in EntryNames :
          /\ HasFile(d, "formal", "wav") /\ ~HasFile(d, "formal", "txt")
          /\ ~HasPair(d, "alice")

ModelLoaded == ema_model # None

\* C9: model_loaded only ever goes from false to true; it is true only once
\* vocoder and model are both loaded; /health reports it; and no /generate call
\* is handled, nor the Engine invoked, while it is false.
C9_ReadinessFlag ==
    /\ [][ModelLoaded => ModelLoaded']_vars
    /\ [](ModelLoaded => vocoder # None)
    /\ [](health # None => health[1].model_loaded = ModelLoaded)
    /\ [](\A r \in Reqs : (pc[r] # "idle" \/ EngineInvoked(r)) => ModelLoaded)

\* /health has answered and the Engine has run.
C9_Witness ==
    /\ health # None /\ health[1].model_loaded
    /\ \E r \in Reqs : EngineInvoked(r)

\* t is c without its leading and trailing whitespace.
Trimmed(t, c) ==
    \E i \in 1..Len(c) + 1 : \E j \in 0..Len(c) :
        /\ t = SubSeq(c, i, j)
        /\ \A k \in 1..Len(c) : (k < i \/ k > j) => c[k] \in Whitespace
        /\ t # <<>> => (t[1] \notin Whitespace /\ t[Len(t)] \notin Whitespace)

\* C10: the Engine is called with the request's speed, nfe_step,
\* cross_fade_duration and remove_silence, the request's text as sent, and the
\* trimmed content of the reference text file.
C10_ParametersPassThrough ==
    \A r \in Reqs : EngineInvoked(r) =>
        LET rq == req[r][1]
            args == engine_call[r][1].args
            txt == Content(rq.voice_id, Asked(rq))
        IN /\ args.speed = rq.speed
           /\ args.nfe_step = rq.nfe_step
           /\ args.cross_fade_duration = rq.cross_fade_duration
           /\ args.gen_text = rq.text
           /\ Trimmed(args.ref_text, txt)
           /\ (IF "remove_silence" \in DOMAIN args THEN args.remove_silence ELSE FALSE)
                 = rq.remove_silence

====
